---- MODULE Spec2Model ----
(***************************************************************************)
(* Model of openvpn_certificate_updater.py: one invocation of main() after *)
(* another against one local configuration path, one backup directory and  *)
(* one remote FTP object.  Every filesystem operation (remove, move, copy, *)
(* chmod), every FTP call and every subprocess call is one step; the       *)
(* outcome of a call that can fail is chosen nondeterministically.         *)
(***************************************************************************)
EXTENDS Integers, Sequences, FiniteSets, TLC

(* ------------------------------ bounds --------------------------------- *)
MaxRuns == 2         \* invocations of main() in one behaviour
MaxClock == 1        \* last clock second
MaxAttempts == 3     \* verification.rollback.max_connection_attempts

(* ------------------------------ values --------------------------------- *)
Byte == {1, 2}              \* the byte values that occur in a file

(* the file contents that occur: the empty file, two files of the same    *)
(* size and different bytes, and a longer file that extends one of them   *)
Contents == {<<>>, <<1>>, <<2>>, <<1, 2>>}

ModeOwnerOnly == "0600"     \* os.chmod(path, 0o600)
ModeDefault == "0644"       \* mode of a file created by open(path, 'wb')

NoFile == [exists |-> FALSE, content |-> <<>>, mode |-> "none", mtime |-> 0]

File(c, m, t) == [exists |-> TRUE, content |-> c, mode |-> m, mtime |-> t]

(* proper prefixes of c: what a write that stops half way leaves on disk *)
Partial(c) == {SubSeq(c, 1, n) : n \in 0..(Len(c) - 1)}

(* os.stat(path).st_size / os.path.getsize(path) *)
getsize(f) == Len(f.content)

(* _calculate_file_hash: a digest of the bytes read in order.  The digest  *)
(* is a positional code of the byte sequence.                              *)
RECURSIVE _calculate_file_hash(_)
_calculate_file_hash(c) ==
    IF c = <<>> THEN 0
    ELSE _calculate_file_hash(SubSeq(c, 1, Len(c) - 1)) * (Cardinality(Byte) + 1) + c[Len(c)]

(* ------------------------------ names ---------------------------------- *)
(* A file name is a sequence of tokens; startswith / endswith compare the  *)
(* leading / trailing tokens.                                              *)
basename == <<"client.conf">>        \* os.path.basename(local_file_path)
BackupMark == <<".backup_">>

(* datetime.now().strftime("%Y%m%d_%H%M%S"): one string per clock second *)
strftime(t) == <<"20240101_000000", "20240101_000001", "20240101_000002",
                 "20240101_000003", "20240101_000004">>[t + 1]

(* f"{filename}.backup_{timestamp}" *)
BackupName(t) == basename \o BackupMark \o <<strftime(t)>>

(* a file some other tool left in the backup directory, named exactly      *)
(* "<filename>.backup_"                                                    *)
ForeignName == basename \o BackupMark

startswith(s, p) == Len(s) >= Len(p) /\ SubSeq(s, 1, Len(p)) = p
endswith(s, p) == Len(s) >= Len(p) /\ SubSeq(s, Len(s) - Len(p) + 1, Len(s)) = p

NoBackup == <<>>                      \* backup_file = None

EmptyDir == [n \in {} |-> NoFile]     \* os.listdir(backup_config) = []

(* ------------------------------ state ---------------------------------- *)
VARIABLES
    cfg,          \* the loaded configuration (self.config)
    now,          \* wall clock, in seconds
    remote,       \* content of the remote .ovpn object
    target,       \* local_file_path
    newFile,      \* f"{local_file_path}.new"
    tempFile,     \* f"{local_file_path}.temp"
    backupDir,    \* backup directory: file name -> file
    pc,           \* position of the running invocation
    restartCtx,   \* caller of _restart_openvpn_service: "install" / "rollback"
    attempt,      \* loop variable of _check_openvpn_connectivity
    backup_file,  \* local variable of _download_and_install_ovpn
    ret,          \* value returned by check_and_update_config
    outcome,      \* UpdateOutcome of the run
    exitCode,     \* sys.exit code of main(), -1 while running
    runs,         \* invocations started so far
    h,            \* what has happened in this run (history)
    yaml,         \* the keys present in the YAML configuration file
    testOk,       \* verdict of test_config.py on it: "none" until it has run
    updaterOk,    \* verdict of the updater's _validate_config on it
    restarted,    \* the service named to systemctl restart, "none" before
    checked       \* the service named to systemctl is-active and journalctl

vars == <<cfg, now, remote, target, newFile, tempFile, backupDir, pc, restartCtx,
          attempt, backup_file, ret, outcome, exitCode, runs, h, yaml, testOk,
          updaterOk, restarted, checked>>

fsVars == <<target, newFile, tempFile, backupDir>>
yamlVars == <<yaml, testOk, updaterOk, restarted, checked>>
envVars == <<cfg, now, remote, yamlVars>>

(* --------------------------- configuration file ------------------------ *)
(* verification.openvpn_service_name: absent, or one of these names *)
Unset == "unset"
ServiceNames == {"openvpn", "openvpn@client", "openvpn@office"}

Sections == {"ftp", "openvpn"}
FtpKeys == {"host", "username", "password"}
OvpnKeys == {"remote_path", "remote_filename", "local_openvpn_path",
             "local_config_filename"}

(* a YAML file, as far as the validations look at it: the sections present *)
(* and the keys present in each                                            *)
YamlFiles == [sections : SUBSET Sections, ftp : SUBSET FtpKeys, openvpn : SUBSET OvpnKeys,
              openvpn_service_name : {Unset} \cup ServiceNames]

(* the file the updater runs with *)
FullYaml == [sections |-> Sections, ftp |-> FtpKeys, openvpn |-> OvpnKeys,
             openvpn_service_name |-> Unset]

(* _restart_openvpn_service:                                               *)
(* config.get('verification', {}).get('openvpn_service_name', 'openvpn')   *)
restart_service_name(y) ==
    IF y.openvpn_service_name = Unset THEN "openvpn" ELSE y.openvpn_service_name

(* _check_openvpn_connectivity:                                            *)
(* config.get('verification', {}).get('openvpn_service_name',              *)
(*                                    'openvpn@client')                    *)
verify_service_name(y) ==
    IF y.openvpn_service_name = Unset THEN "openvpn@client" ELSE y.openvpn_service_name

(* OpenVPNConfigUpdater._validate_config: no ValueError is raised.  A key   *)
(* of a missing section is a KeyError in self.config['ftp'], never reached *)
(* because the sections are checked first                                  *)
_validate_config(y) ==
    /\ \A section \in {"ftp", "openvpn"} : section \in y.sections
    /\ \A key \in {"host", "username", "password"} : key \in y.ftp
    /\ \A key \in {"remote_path", "remote_filename", "local_openvpn_path",
                    "local_config_filename"} : key \in y.openvpn

(* test_config.py, test_config_file: returns True *)
test_config_file(y) ==
    /\ \A section \in {"ftp", "openvpn"} : section \in y.sections
    /\ \A key \in {"host", "username", "password"} : key \in y.ftp
    /\ \A key \in {"remote_path", "local_openvpn_path", "local_config_filename"} :
           key \in y.openvpn

Config == [create_backup : BOOLEAN, backup_path : BOOLEAN, auto_rollback : BOOLEAN,
           check_connectivity : BOOLEAN, restart_openvpn : BOOLEAN,
           max_connection_attempts : {MaxAttempts}]

NewHistory(t, n, b, prev) ==
    [pre |-> t, preNew |-> n, preBackups |-> b, prevOutcome |-> prev,
     detect |-> "none", installCalled |-> FALSE, backupCopied |-> FALSE,
     backupFailed |-> FALSE, installed |-> FALSE, restartRes |-> "none",
     rbRestartRes |-> "none", verifyRes |-> "none", rbEntered |-> FALSE,
     rbRestored |-> FALSE, restartCalls |-> 0, primTried |-> FALSE,
     secTried |-> FALSE, statusChecks |-> 0, attempts |-> 0, fault |-> "none",
     downloadFailed |-> "none", quitRaised |-> FALSE, onlyInactive |-> TRUE,
     iface |-> "none", logs |-> "none"]

Init ==
    /\ cfg \in Config
    /\ now = 0
    /\ remote \in Contents
    /\ target \in {NoFile} \cup {File(c, ModeDefault, 0) : c \in Contents}
    /\ newFile = NoFile
    /\ tempFile = NoFile
    /\ backupDir \in IF cfg.backup_path
                      THEN {EmptyDir, ForeignName :> File(<<1>>, ModeOwnerOnly, 0)}
                      ELSE {EmptyDir}
    /\ pc = "start"
    /\ restartCtx = "none"
    /\ attempt = 0
    /\ backup_file = NoBackup
    /\ ret = FALSE
    /\ outcome = "none"
    /\ exitCode = -1
    /\ runs = 1
    /\ h = NewHistory(target, newFile, backupDir, "none")
    /\ yaml = FullYaml
    /\ testOk = "none"
    /\ updaterOk = "none"
    /\ restarted = "none"
    /\ checked = "none"

(* ------------------------------ helpers -------------------------------- *)
Goto(p) == pc' = p /\ UNCHANGED <<ret, outcome>>

(* a return statement of check_and_update_config or of a function it calls *)
(* in tail position: the finally clause (ftp.quit) runs next               *)
Return(r, o) == pc' = "quit" /\ ret' = r /\ outcome' = o

(* what _download_ovpn_file can leave at local_path when it returns False: *)
(* the file as it was (ftp.cwd or os.makedirs raised before open), or a    *)
(* truncated file (open(local_path, 'wb') succeeded, RETR did not finish)  *)
FailedDownload(old) ==
    {old} \cup {File(p, ModeDefault, now) : p \in Partial(remote) \cup {<<>>}}

(* the candidates of the backup selection and the sort by mtime, newest    *)
(* first; equal mtimes keep the order of os.listdir, which is arbitrary    *)
BackupCandidates(dir) ==
    {n \in DOMAIN dir : startswith(n, basename) /\ endswith(n, BackupMark)}

NewestFirst(dir) ==
    {n \in BackupCandidates(dir) :
        \A m \in BackupCandidates(dir) : dir[m].mtime <= dir[n].mtime}

(* ------------------------------ main ----------------------------------- *)
(* main(): the configuration is loaded, the updater is constructed *)
main ==
    /\ pc = "start"
    /\ Goto("connect")
    /\ UNCHANGED <<envVars, fsVars, restartCtx, attempt, backup_file, exitCode, runs, h>>

(* _connect_ftp: raises on any FTP error; the exception is caught by the   *)
(* outer except of check_and_update_config (ftp.quit is not reached)       *)
_connect_ftp ==
    /\ pc = "connect"
    /\ \E ok \in BOOLEAN :
         IF ok THEN Goto("remote_info") /\ h' = h
         ELSE /\ pc' = "main_exit"
              /\ ret' = FALSE
              /\ outcome' = "Failed"
              /\ h' = [h EXCEPT !.fault = "connect"]
    /\ UNCHANGED <<envVars, fsVars, restartCtx, attempt, backup_file, exitCode, runs>>

(* _get_remote_file_info with the None result taken for "file is new":    *)
(* the install is started without remote information                      *)
_get_remote_file_info_ignoreNone ==
    /\ pc = "remote_info"
    /\ \E ok \in BOOLEAN :
         IF ok THEN Goto("local_info") /\ h' = h
         ELSE Goto("backup") /\ h' = [h EXCEPT !.fault = "remote_info"]
    /\ UNCHANGED <<envVars, fsVars, restartCtx, attempt, backup_file, exitCode, runs>>

(* _get_remote_file_info: None when LIST fails or does not name the file *)
_get_remote_file_info ==
    /\ pc = "remote_info"
    /\ \E ok \in BOOLEAN :
         IF ok THEN Goto("local_info") /\ h' = h
         ELSE Return(FALSE, "Failed") /\ h' = [h EXCEPT !.fault = "remote_info"]
    /\ UNCHANGED <<envVars, fsVars, restartCtx, attempt, backup_file, exitCode, runs>>

(* _get_local_file_info and the comparison of the sizes *)
compare_sizes ==
    /\ pc = "local_info"
    /\ IF ~target.exists
         THEN Goto("backup") /\ h' = [h EXCEPT !.detect = "LocalMissing"]
       ELSE IF Len(remote) # getsize(target)
         THEN Goto("backup") /\ h' = [h EXCEPT !.detect = "Stale"]
       ELSE Goto("temp_download") /\ h' = h
    /\ UNCHANGED <<envVars, fsVars, restartCtx, attempt, backup_file, exitCode, runs>>

(* _download_ovpn_file(..., temp_file) with temp_file = local_file_path.temp *)
download_temp ==
    /\ pc = "temp_download"
    /\ \/ /\ tempFile' = File(remote, ModeDefault, now)
          /\ Goto("compare_hash")
          /\ h' = h
       \/ /\ tempFile' \in FailedDownload(tempFile)
          /\ Return(FALSE, "Failed")
          /\ h' = [h EXCEPT !.fault = "temp_download", !.downloadFailed = "temp"]
    /\ UNCHANGED <<envVars, target, newFile, backupDir, restartCtx, attempt,
                   backup_file, exitCode, runs>>

(* compare_hash without the digests: equal sizes are taken for equal files *)
compare_hash_sizeOnly ==
    /\ pc = "compare_hash"
    /\ tempFile' = NoFile
    /\ Return(TRUE, "Unchanged")
    /\ h' = [h EXCEPT !.detect = "Fresh"]
    /\ UNCHANGED <<envVars, target, newFile, backupDir, restartCtx, attempt,
                   backup_file, exitCode, runs>>

(* compare_hash without os.remove(temp_file) *)
compare_hash_keepTemp ==
    /\ pc = "compare_hash"
    /\ tempFile' = tempFile
    /\ IF _calculate_file_hash(target.content) # _calculate_file_hash(tempFile.content)
         THEN Goto("backup") /\ h' = [h EXCEPT !.detect = "Stale"]
         ELSE Return(TRUE, "Unchanged") /\ h' = [h EXCEPT !.detect = "Fresh"]
    /\ UNCHANGED <<envVars, target, newFile, backupDir, restartCtx, attempt,
                   backup_file, exitCode, runs>>

(* the two hashes, os.remove(temp_file), and the comparison *)
compare_hash ==
    /\ pc = "compare_hash"
    /\ tempFile' = NoFile
    /\ IF _calculate_file_hash(target.content) # _calculate_file_hash(tempFile.content)
         THEN Goto("backup") /\ h' = [h EXCEPT !.detect = "Stale"]
         ELSE Return(TRUE, "Unchanged") /\ h' = [h EXCEPT !.detect = "Fresh"]
    /\ UNCHANGED <<envVars, target, newFile, backupDir, restartCtx, attempt,
                   backup_file, exitCode, runs>>

(* --------------------- _download_and_install_ovpn ---------------------- *)
(* after the backup block the install goes on to the .new download *)
BackupDone == Goto("new_download") /\ newFile' = newFile

(* _create_backup with the search for a backup made after a failed backup  *)
(* as well                                                                 *)
_create_backup_selectOnFailure ==
    /\ pc = "backup"
    /\ IF cfg.create_backup /\ target.exists
       THEN IF ~cfg.backup_path
            THEN /\ backupDir' = backupDir
                 /\ backup_file' = NoBackup
                 /\ h' = [h EXCEPT !.installCalled = TRUE]
                 /\ BackupDone
            ELSE \/ /\ backupDir' = (BackupName(now) :> target) @@ backupDir
                    /\ backup_file' \in
                         IF BackupCandidates(backupDir') = {} THEN {NoBackup}
                         ELSE NewestFirst(backupDir')
                    /\ h' = [h EXCEPT !.installCalled = TRUE, !.backupCopied = TRUE]
                    /\ BackupDone
                 \/ /\ backupDir' = (BackupName(now) :> target) @@ backupDir
                    /\ backup_file' = NoBackup
                    /\ newFile' = NoFile
                    /\ Return(FALSE, "Failed")
                    /\ h' = [h EXCEPT !.installCalled = TRUE, !.backupCopied = TRUE,
                                      !.fault = "backup_select"]
                 \/ /\ backupDir' = backupDir
                    /\ backup_file' \in
                         IF BackupCandidates(backupDir) = {} THEN {NoBackup}
                         ELSE NewestFirst(backupDir)
                    /\ h' = [h EXCEPT !.installCalled = TRUE, !.backupFailed = TRUE]
                    /\ BackupDone
       ELSE /\ backupDir' = backupDir
            /\ backup_file' = NoBackup
            /\ h' = [h EXCEPT !.installCalled = TRUE]
            /\ BackupDone
    /\ UNCHANGED <<envVars, target, tempFile, restartCtx, attempt, exitCode, runs>>

(* _create_backup followed by the search for the backup just made.         *)
(* No backup_path configured: nothing is copied; otherwise shutil.copy2     *)
(* writes the backup under this second's name, over a file of that name;  *)
(* "failed": an exception inside _create_backup (os.makedirs or the copy   *)
(* refused), which returns False; an exception in the search (os.listdir,  *)
(* os.path.getmtime) reaches the except clause of the install: the .new    *)
(* file is removed if there is one and False is returned                   *)
_create_backup ==
    /\ pc = "backup"
    /\ IF cfg.create_backup /\ target.exists
       THEN IF ~cfg.backup_path
            THEN /\ backupDir' = backupDir
                 /\ backup_file' = NoBackup
                 /\ h' = [h EXCEPT !.installCalled = TRUE]
                 /\ BackupDone
            ELSE \/ /\ backupDir' = (BackupName(now) :> target) @@ backupDir
                    /\ backup_file' \in
                         IF BackupCandidates(backupDir') = {} THEN {NoBackup}
                         ELSE NewestFirst(backupDir')
                    /\ h' = [h EXCEPT !.installCalled = TRUE, !.backupCopied = TRUE]
                    /\ BackupDone
                 \/ /\ backupDir' = (BackupName(now) :> target) @@ backupDir
                    /\ backup_file' = NoBackup
                    /\ newFile' = NoFile
                    /\ Return(FALSE, "Failed")
                    /\ h' = [h EXCEPT !.installCalled = TRUE, !.backupCopied = TRUE,
                                      !.fault = "backup_select"]
                 \/ /\ backupDir' = backupDir
                    /\ backup_file' = NoBackup
                    /\ h' = [h EXCEPT !.installCalled = TRUE, !.backupFailed = TRUE]
                    /\ BackupDone
       ELSE /\ backupDir' = backupDir
            /\ backup_file' = NoBackup
            /\ h' = [h EXCEPT !.installCalled = TRUE]
            /\ BackupDone
    /\ UNCHANGED <<envVars, target, tempFile, restartCtx, attempt, exitCode, runs>>

(* _download_ovpn_file(..., temp_file) with temp_file = local_file_path.new *)
download_new ==
    /\ pc = "new_download"
    /\ \/ /\ newFile' = File(remote, ModeDefault, now)
          /\ Goto("check_size")
          /\ h' = h
       \/ /\ newFile' \in FailedDownload(newFile)
          /\ Return(FALSE, "Failed")
          /\ h' = [h EXCEPT !.fault = "new_download", !.downloadFailed = "new"]
    /\ UNCHANGED <<envVars, target, tempFile, backupDir, restartCtx, attempt,
                   backup_file, exitCode, runs>>

(* check_size without the test for an empty download *)
check_size_noCheck ==
    /\ pc = "check_size"
    /\ newFile' = newFile
    /\ Goto("remove_old")
    /\ h' = h
    /\ UNCHANGED <<envVars, target, tempFile, backupDir, restartCtx, attempt,
                   backup_file, exitCode, runs>>

(* if os.path.getsize(temp_file) == 0: os.remove(temp_file); return False *)
check_size ==
    /\ pc = "check_size"
    /\ IF getsize(newFile) = 0
       THEN /\ newFile' = NoFile
            /\ Return(FALSE, "Failed")
            /\ h' = [h EXCEPT !.fault = "empty"]
       ELSE /\ newFile' = newFile
            /\ Goto("remove_old")
            /\ h' = h
    /\ UNCHANGED <<envVars, target, tempFile, backupDir, restartCtx, attempt,
                   backup_file, exitCode, runs>>

(* the except clause of _download_and_install_ovpn: remove the .new file   *)
(* if it exists, return False                                              *)
InstallException(step) ==
    /\ newFile' = NoFile
    /\ Return(FALSE, "Failed")
    /\ h' = [h EXCEPT !.fault = step]

(* if os.path.exists(local_file_path): os.remove(local_file_path) *)
remove_old ==
    /\ pc = "remove_old"
    /\ IF target.exists
       THEN \/ /\ target' = NoFile
               /\ newFile' = newFile
               /\ Goto("move_new")
               /\ h' = h
            \/ /\ target' = target
               /\ InstallException("remove_old")
       ELSE /\ target' = target
            /\ newFile' = newFile
            /\ Goto("move_new")
            /\ h' = h
    /\ UNCHANGED <<envVars, tempFile, backupDir, restartCtx, attempt,
                   backup_file, exitCode, runs>>

(* shutil.move(temp_file, local_file_path) *)
move_new ==
    /\ pc = "move_new"
    /\ \/ /\ target' = newFile
          /\ newFile' = NoFile
          /\ Goto("chmod_new")
          /\ h' = [h EXCEPT !.installed = TRUE]
       \/ /\ target' = target
          /\ InstallException("move_new")
    /\ UNCHANGED <<envVars, tempFile, backupDir, restartCtx, attempt,
                   backup_file, exitCode, runs>>

(* chmod_new with the mode left as the download made it *)
chmod_new_keepMode ==
    /\ pc = "chmod_new"
    /\ target' = target
    /\ newFile' = newFile
    /\ restartCtx' = "install"
    /\ Goto("restart_primary")
    /\ h' = h
    /\ UNCHANGED <<envVars, tempFile, backupDir, attempt, backup_file, exitCode, runs>>

(* os.chmod(local_file_path, 0o600); _restart_openvpn_service is called next *)
chmod_new ==
    /\ pc = "chmod_new"
    /\ \/ /\ target' = [target EXCEPT !.mode = ModeOwnerOnly]
          /\ newFile' = newFile
          /\ restartCtx' = "install"
          /\ Goto("restart_primary")
          /\ h' = h
       \/ /\ target' = target
          /\ restartCtx' = restartCtx
          /\ InstallException("chmod_new")
    /\ UNCHANGED <<envVars, tempFile, backupDir, attempt, backup_file, exitCode, runs>>

(* --------------------- _rollback_configuration entry ------------------- *)
RollbackEligible == backup_file # NoBackup /\ cfg.auto_rollback

(* ----------------------- _restart_openvpn_service ---------------------- *)
(* what the caller does with the value r returned by the restart; hh is    *)
(* the history with this restart's commands recorded                       *)
(* AfterRestart with the rollback reported successful whatever the restart *)
(* returned                                                                *)
AfterRestart_rollbackAlwaysOk(r, hh) ==
    IF restartCtx = "rollback"
    THEN /\ h' = [hh EXCEPT !.rbRestartRes = IF r THEN "ok" ELSE "failed"]
         /\ Return(TRUE, "UpdatedWithRollback")
         /\ attempt' = attempt
    ELSE /\ h' = [hh EXCEPT !.restartRes = IF r THEN "ok" ELSE "failed"]
         /\ IF ~r
            THEN /\ IF RollbackEligible THEN Goto("rollback_check")
                                        ELSE Return(FALSE, "Failed")
                 /\ attempt' = attempt
            ELSE IF cfg.check_connectivity
                 THEN Goto("verify_active") /\ attempt' = 1
                 ELSE Return(TRUE, "Updated") /\ attempt' = attempt

AfterRestart(r, hh) ==
    IF restartCtx = "rollback"
    THEN (* tail of _rollback_configuration *)
         /\ h' = [hh EXCEPT !.rbRestartRes = IF r THEN "ok" ELSE "failed"]
         /\ Return(r, IF r THEN "UpdatedWithRollback" ELSE "Failed")
         /\ attempt' = attempt
    ELSE (* _download_and_install_ovpn after the install *)
         /\ h' = [hh EXCEPT !.restartRes = IF r THEN "ok" ELSE "failed"]
         /\ IF ~r
            THEN /\ IF RollbackEligible THEN Goto("rollback_check")
                                        ELSE Return(FALSE, "Failed")
                 /\ attempt' = attempt
            ELSE IF cfg.check_connectivity
                 THEN Goto("verify_active") /\ attempt' = 1
                 ELSE Return(TRUE, "Updated") /\ attempt' = attempt

(* restart_primary without the restart_openvpn switch *)
restart_primary_noSwitch ==
    /\ pc = "restart_primary"
    /\ LET h0 == [h EXCEPT !.restartCalls = @ + 1, !.primTried = FALSE, !.secTried = FALSE]
           h1 == [h0 EXCEPT !.primTried = TRUE]
       IN  \/ AfterRestart(TRUE, h1)
           \/ Goto("restart_secondary") /\ h' = h1 /\ attempt' = attempt
           \/ AfterRestart(FALSE, h1)
    /\ UNCHANGED <<envVars, fsVars, restartCtx, backup_file, exitCode, runs>>

(* the restart_openvpn switch, then ['systemctl', 'restart', service_name] *)
(* "ok": return code 0; "nonzero": another return code; "raised":          *)
(* subprocess.TimeoutExpired or any other exception                        *)
restart_primary ==
    /\ pc = "restart_primary"
    /\ LET h0 == [h EXCEPT !.restartCalls = @ + 1, !.primTried = FALSE, !.secTried = FALSE]
           h1 == [h0 EXCEPT !.primTried = TRUE]
       IN  IF ~cfg.restart_openvpn
           THEN AfterRestart(TRUE, h0)
           ELSE \/ AfterRestart(TRUE, h1)
                \/ Goto("restart_secondary") /\ h' = h1 /\ attempt' = attempt
                \/ AfterRestart(FALSE, h1)
    /\ UNCHANGED <<envVars, fsVars, restartCtx, backup_file, exitCode, runs>>

(* ['service', service_name, 'restart'] *)
restart_secondary ==
    /\ pc = "restart_secondary"
    /\ LET h1 == [h EXCEPT !.secTried = TRUE]
       IN  \E r \in BOOLEAN : AfterRestart(r, h1)
    /\ UNCHANGED <<envVars, fsVars, restartCtx, backup_file, exitCode, runs>>

(* ---------------------- _check_openvpn_connectivity -------------------- *)
(* what _download_and_install_ovpn does with the verifier's result *)
AfterVerify(b, hh) ==
    /\ h' = [hh EXCEPT !.verifyRes = IF b THEN "connected" ELSE "disconnected"]
    /\ attempt' = attempt
    /\ IF b THEN Return(TRUE, "Updated")
       ELSE IF RollbackEligible THEN Goto("rollback_check")
       ELSE Return(FALSE, "Failed")

(* NextAttempt giving up one attempt early *)
NextAttempt_oneShort(hh) ==
    IF attempt + 1 < cfg.max_connection_attempts
    THEN /\ attempt' = attempt + 1
         /\ Goto("verify_active")
         /\ h' = hh
    ELSE AfterVerify(FALSE, hh)

(* the end of one failed attempt: next iteration of the for loop, or the   *)
(* return False after it                                                   *)
NextAttempt(hh) ==
    IF attempt < cfg.max_connection_attempts
    THEN /\ attempt' = attempt + 1
         /\ Goto("verify_active")
         /\ h' = hh
    ELSE AfterVerify(FALSE, hh)

(* ['systemctl', 'is-active', service_name]: active; not active (sleep and *)
(* continue, or return False on the last attempt); TimeoutExpired or any   *)
(* other exception (logged, the loop goes on)                              *)
verify_active ==
    /\ pc = "verify_active"
    /\ LET h1 == [h EXCEPT !.statusChecks = @ + 1, !.attempts = attempt,
                           !.iface = "none", !.logs = "none"]
           h2 == [h1 EXCEPT !.onlyInactive = FALSE]
       IN  \/ Goto("verify_iface") /\ h' = h2 /\ attempt' = attempt
           \/ NextAttempt(h1)
           \/ NextAttempt(h2)
    /\ UNCHANGED <<envVars, fsVars, restartCtx, backup_file, exitCode, runs>>

(* verify_iface with the logs read whether or not a tunnel interface is   *)
(* listed                                                                  *)
verify_iface_alwaysLogs ==
    /\ pc = "verify_iface"
    /\ \/ Goto("verify_logs") /\ h' = [h EXCEPT !.iface = "tun"] /\ attempt' = attempt
       \/ Goto("verify_logs") /\ h' = [h EXCEPT !.iface = "absent"] /\ attempt' = attempt
       \/ NextAttempt([h EXCEPT !.iface = "raised"])
    /\ UNCHANGED <<envVars, fsVars, restartCtx, backup_file, exitCode, runs>>

(* time.sleep(5); ['ip', 'link', 'show']: 'tun' or 'tap' in the output     *)
(* returns True; otherwise the logs are read; TimeoutExpired or another    *)
(* exception ends the attempt                                              *)
verify_iface ==
    /\ pc = "verify_iface"
    /\ \/ AfterVerify(TRUE, [h EXCEPT !.iface = "tun"])
       \/ Goto("verify_logs") /\ h' = [h EXCEPT !.iface = "absent"] /\ attempt' = attempt
       \/ NextAttempt([h EXCEPT !.iface = "raised"])
    /\ UNCHANGED <<envVars, fsVars, restartCtx, backup_file, exitCode, runs>>

(* ['journalctl', '-u', service_name, '--since', '1 minute ago', ...]:     *)
(* no 'ERROR' and no 'FATAL' in the output returns True; a marker ends the *)
(* attempt (sleep and continue, or return False on the last one), and so   *)
(* does TimeoutExpired or another exception                                *)
verify_logs ==
    /\ pc = "verify_logs"
    /\ \/ AfterVerify(TRUE, [h EXCEPT !.logs = "clean"])
       \/ NextAttempt([h EXCEPT !.logs = "markers"])
       \/ NextAttempt([h EXCEPT !.logs = "raised"])
    /\ UNCHANGED <<envVars, fsVars, restartCtx, backup_file, exitCode, runs>>

(* ----------------------- _rollback_configuration ----------------------- *)
(* the backup directory belongs to the host: the selected file can be gone *)
(* by the time the rollback looks for it                                   *)
backup_removed_externally ==
    /\ pc = "rollback_check"
    /\ backup_file \in DOMAIN backupDir
    /\ backupDir' = [n \in DOMAIN backupDir \ {backup_file} |-> backupDir[n]]
    /\ UNCHANGED <<envVars, target, newFile, tempFile, pc, restartCtx, attempt,
                   backup_file, ret, outcome, exitCode, runs, h>>

(* if not os.path.exists(backup_file): return False *)
rollback_check ==
    /\ pc = "rollback_check"
    /\ IF backup_file \in DOMAIN backupDir
       THEN Goto("rollback_remove") /\ h' = [h EXCEPT !.rbEntered = TRUE]
       ELSE /\ Return(FALSE, "Failed")
            /\ h' = [h EXCEPT !.rbEntered = TRUE, !.fault = "rollback_check"]
    /\ UNCHANGED <<envVars, fsVars, restartCtx, attempt, backup_file, exitCode, runs>>

(* if os.path.exists(current_file): os.remove(current_file) *)
rollback_remove ==
    /\ pc = "rollback_remove"
    /\ IF target.exists
       THEN \/ target' = NoFile /\ Goto("rollback_copy") /\ h' = h
            \/ /\ target' = target
               /\ Return(FALSE, "Failed")
               /\ h' = [h EXCEPT !.fault = "rollback_remove"]
       ELSE target' = target /\ Goto("rollback_copy") /\ h' = h
    /\ UNCHANGED <<envVars, newFile, tempFile, backupDir, restartCtx, attempt,
                   backup_file, exitCode, runs>>

(* shutil.copy2(backup_file, current_file): content, mode and times of the *)
(* backup; a copy that raises leaves no file or a truncated one            *)
rollback_copy ==
    /\ pc = "rollback_copy"
    /\ \/ /\ backup_file \in DOMAIN backupDir
          /\ target' = backupDir[backup_file]
          /\ Goto("rollback_chmod")
          /\ h' = h
       \/ /\ target' \in {target} \cup
               IF backup_file \in DOMAIN backupDir
               THEN {File(p, ModeDefault, now) : p \in Partial(backupDir[backup_file].content)}
               ELSE {}
          /\ Return(FALSE, "Failed")
          /\ h' = [h EXCEPT !.fault = "rollback_copy"]
    /\ UNCHANGED <<envVars, newFile, tempFile, backupDir, restartCtx, attempt,
                   backup_file, exitCode, runs>>

(* os.chmod(current_file, 0o600); _restart_openvpn_service is called next *)
rollback_chmod ==
    /\ pc = "rollback_chmod"
    /\ \/ /\ target' = [target EXCEPT !.mode = ModeOwnerOnly]
          /\ restartCtx' = "rollback"
          /\ Goto("restart_primary")
          /\ h' = [h EXCEPT !.rbRestored = TRUE]
       \/ /\ target' = target
          /\ restartCtx' = restartCtx
          /\ Return(FALSE, "Failed")
          /\ h' = [h EXCEPT !.fault = "rollback_chmod"]
    /\ UNCHANGED <<envVars, newFile, tempFile, backupDir, attempt, backup_file,
                   exitCode, runs>>

(* ------------------------- end of the invocation ----------------------- *)
(* ftp_quit with an exception of ftp.quit() swallowed: the value being     *)
(* returned is kept                                                        *)
ftp_quit_swallow ==
    /\ pc = "quit"
    /\ \/ /\ pc' = "main_exit"
          /\ UNCHANGED <<ret, outcome, h>>
       \/ /\ pc' = "main_exit"
          /\ UNCHANGED <<ret, outcome>>
          /\ h' = [h EXCEPT !.quitRaised = TRUE]
    /\ UNCHANGED <<envVars, fsVars, restartCtx, attempt, backup_file, exitCode, runs>>

(* finally: ftp.quit().  An exception raised here replaces the value being *)
(* returned and reaches the outer except, which returns False              *)
ftp_quit ==
    /\ pc = "quit"
    /\ \/ /\ pc' = "main_exit"
          /\ UNCHANGED <<ret, outcome, h>>
       \/ /\ pc' = "main_exit"
          /\ ret' = FALSE
          /\ outcome' = "Failed"
          /\ h' = [h EXCEPT !.quitRaised = TRUE]
    /\ UNCHANGED <<envVars, fsVars, restartCtx, attempt, backup_file, exitCode, runs>>

(* main_exit with a rolled-back update reported as a failure *)
main_exit_rollbackFails ==
    /\ pc = "main_exit"
    /\ exitCode' = IF ret /\ outcome # "UpdatedWithRollback" THEN 0 ELSE 1
    /\ pc' = "exited"
    /\ UNCHANGED <<envVars, fsVars, restartCtx, attempt, backup_file, ret, outcome, runs, h>>

(* main(): sys.exit(0) if success else sys.exit(1) *)
main_exit ==
    /\ pc = "main_exit"
    /\ exitCode' = IF ret THEN 0 ELSE 1
    /\ pc' = "exited"
    /\ UNCHANGED <<envVars, fsVars, restartCtx, attempt, backup_file, ret, outcome, runs, h>>

(* ------------------------------ environment ---------------------------- *)
(* the external scheduler starts the next invocation after the last exited *)
NextRun ==
    /\ pc = "exited"
    /\ runs < MaxRuns
    /\ runs' = runs + 1
    /\ pc' = "start"
    /\ restartCtx' = "none"
    /\ attempt' = 0
    /\ backup_file' = NoBackup
    /\ ret' = FALSE
    /\ outcome' = "none"
    /\ exitCode' = -1
    /\ h' = NewHistory(target, newFile, backupDir, outcome)
    /\ UNCHANGED <<envVars, fsVars>>

(* a second passes between two invocations (at most one per invocation:   *)
(* only whether two invocations share a clock second matters)             *)
Tick ==
    /\ pc = "exited"
    /\ runs < MaxRuns
    /\ now < MaxClock
    /\ now < runs
    /\ now' = now + 1
    /\ UNCHANGED <<cfg, remote, yamlVars, fsVars, pc, restartCtx, attempt,
                   backup_file, ret, outcome, exitCode, runs, h>>

Next ==
    \/ main
    \/ _connect_ftp
    \/ _get_remote_file_info
    \/ compare_sizes
    \/ download_temp
    \/ compare_hash
    \/ _create_backup
    \/ download_new
    \/ check_size
    \/ remove_old
    \/ move_new
    \/ chmod_new
    \/ restart_primary
    \/ restart_secondary
    \/ verify_active
    \/ verify_iface
    \/ verify_logs
    \/ backup_removed_externally
    \/ rollback_check
    \/ rollback_remove
    \/ rollback_copy
    \/ rollback_chmod
    \/ ftp_quit
    \/ main_exit
    \/ NextRun
    \/ Tick

Spec == Init /\ [][Next]_vars

(* the steps that return within a bounded time: local file operations, and *)
(* the subprocess.run calls, each given timeout=10, 15 or 30.  The ftplib  *)
(* calls are absent: ftplib.FTP() is built without a timeout and no socket *)
(* default is set, so connect, login, LIST, RETR and QUIT block until the  *)
(* peer answers                                                            *)
BoundedSteps ==
    \/ main
    \/ compare_sizes
    \/ compare_hash
    \/ _create_backup
    \/ check_size
    \/ remove_old
    \/ move_new
    \/ chmod_new
    \/ restart_primary
    \/ restart_secondary
    \/ verify_active
    \/ verify_iface
    \/ verify_logs
    \/ rollback_check
    \/ rollback_remove
    \/ rollback_copy
    \/ rollback_chmod
    \/ main_exit

(* the runs under the scheduling the code guarantees *)
SpecLive == Init /\ [][Next]_vars /\ WF_vars(BoundedSteps)

(* ------------------- validation of configuration files ----------------- *)
(* A configuration file is written, test_config.py is run on it, and the   *)
(* updater is started with it; nothing else runs                           *)
runVars == <<cfg, now, remote, fsVars, pc, restartCtx, attempt, backup_file, ret,
             outcome, exitCode, runs, h>>

InitYaml ==
    /\ yaml \in YamlFiles
    /\ testOk = "none"
    /\ updaterOk = "none"
    /\ restarted = "none"
    /\ checked = "none"
    /\ cfg = [create_backup |-> TRUE, backup_path |-> TRUE, auto_rollback |-> TRUE,
              check_connectivity |-> TRUE, restart_openvpn |-> TRUE,
              max_connection_attempts |-> MaxAttempts]
    /\ now = 0
    /\ remote = <<>>
    /\ target = NoFile
    /\ newFile = NoFile
    /\ tempFile = NoFile
    /\ backupDir = EmptyDir
    /\ pc = "start"
    /\ restartCtx = "none"
    /\ attempt = 0
    /\ backup_file = NoBackup
    /\ ret = FALSE
    /\ outcome = "none"
    /\ exitCode = -1
    /\ runs = 1
    /\ h = NewHistory(target, newFile, backupDir, "none")

(* python3 test_config.py config.yml *)
run_test_config ==
    /\ testOk = "none"
    /\ testOk' = IF test_config_file(yaml) THEN "valid" ELSE "invalid"
    /\ UNCHANGED <<yaml, updaterOk, restarted, checked, runVars>>

(* OpenVPNConfigUpdater(config_file): __init__ calls _validate_config *)
run_updater_init ==
    /\ updaterOk = "none"
    /\ updaterOk' = IF _validate_config(yaml) THEN "valid" ELSE "invalid"
    /\ UNCHANGED <<yaml, testOk, restarted, checked, runVars>>

(* the updater, constructed, names the service to restart *)
restart_names_service ==
    /\ updaterOk = "valid"
    /\ restarted = "none"
    /\ restarted' = restart_service_name(yaml)
    /\ UNCHANGED <<yaml, testOk, updaterOk, checked, runVars>>

(* the updater, constructed, names the service whose status and logs the   *)
(* verifier reads                                                          *)
verify_names_service ==
    /\ updaterOk = "valid"
    /\ checked = "none"
    /\ checked' = verify_service_name(yaml)
    /\ UNCHANGED <<yaml, testOk, updaterOk, restarted, runVars>>

NextYaml ==
    \/ run_test_config
    \/ run_updater_init
    \/ restart_names_service
    \/ verify_names_service

SpecYaml == InitYaml /\ [][NextYaml]_vars

(* ------------------------------ types ---------------------------------- *)
TypeOK ==
    /\ cfg \in Config
    /\ now \in 0..MaxClock
    /\ remote \in Contents
    /\ target.exists \in BOOLEAN
    /\ runs \in 1..MaxRuns
    /\ exitCode \in {-1, 0, 1}
    /\ outcome \in {"none", "Unchanged", "Updated", "UpdatedWithRollback", "Failed"}

(* ============================== claims ================================= *)
Terminal == pc = "exited"

(* the run is past _download_and_install_ovpn and _rollback_configuration *)
Returned == pc \in {"quit", "main_exit", "exited"}

PostInstallFailure == h.restartRes = "failed" \/ h.verifyRes = "disconnected"

SameContent(f, g) == f.exists = g.exists /\ f.content = g.content

(* C1: with an existing target, backups enabled, a backup destination      *)
(* configured, the backup copied and auto-rollback enabled, a failed       *)
(* post-install restart or a Disconnected verification makes the run enter *)
(* the rollback instead of returning Failed with the new file installed    *)
C1_RollbackEntered ==
    (/\ Returned
     /\ h.pre.exists
     /\ cfg.create_backup /\ cfg.backup_path /\ h.backupCopied
     /\ cfg.auto_rollback
     /\ PostInstallFailure)
    => h.rbEntered

(* C2: target content X backed up, replaced by downloaded content Y, the   *)
(* restart after the install fails, backups and auto-rollback enabled:     *)
(* at the end of the run the target's content is X                         *)
C2_RollbackRestoresPriorBytes ==
    (/\ Terminal
     /\ h.pre.exists
     /\ cfg.create_backup /\ h.backupCopied
     /\ cfg.auto_rollback
     /\ h.installed
     /\ h.restartRes = "failed")
    => (target.exists /\ target.content = h.pre.content)

(* C3: at every terminal state the content is unchanged, or it changed and *)
(* the outcome is Updated, or the target was reverted, or a rollback was   *)
(* attempted; never Failed with the new content and no rollback attempted  *)
C3_AtomicOutcome ==
    Terminal =>
        \/ SameContent(target, h.pre)
        \/ outcome = "Updated"
        \/ h.rbEntered

(* the steps at which the install and the restore can fail *)
InstallFaults == {"new_download", "empty", "remove_old", "move_new", "chmod_new"}

RestoreFaults == {"rollback_check", "rollback_remove", "rollback_copy", "rollback_chmod"}

(* C4: if the target existed before the install (or restore) began and the *)
(* install (or restore) fails at one of its steps, the target still exists *)
C4_TargetSurvivesFailure ==
    /\ (h.fault \in InstallFaults /\ h.pre.exists) => target.exists
    /\ (h.fault \in RestoreFaults) => target.exists

(* C5: in every state of a run that started with an existing target, the   *)
(* target exists and holds the complete previous version or the complete   *)
(* downloaded version                                                      *)
C5_TargetAlwaysComplete ==
    h.pre.exists =>
        /\ target.exists
        /\ target.content \in {h.pre.content, remote}

C7_RollbackExitsNonZero ==
    (Terminal /\ outcome = "UpdatedWithRollback") => exitCode # 0

(* C8: when a run terminates, neither the .new staging file nor the .temp  *)
(* comparison file exists                                                  *)
C8_NoStagingLeft ==
    Terminal => (~newFile.exists /\ ~tempFile.exists)

(* the reference classification of a local file against the remote bytes *)
isStale(local, remoteBytes) ==
    IF ~local.exists THEN "LocalMissing"
    ELSE IF Len(local.content) # Len(remoteBytes) THEN "Stale"
    ELSE IF _calculate_file_hash(local.content) = _calculate_file_hash(remoteBytes)
         THEN "Fresh"
    ELSE "Stale"

(* C9: detection classifies as the reference does: no local file gives     *)
(* LocalMissing, differing sizes give Stale, equal sizes give Fresh iff    *)
(* the digests are equal; the install is attempted exactly after Stale or  *)
(* LocalMissing                                                            *)
C9_DetectionMatchesReference ==
    /\ h.detect # "none" => h.detect = isStale(h.pre, remote)
    /\ h.detect \in {"Stale", "LocalMissing"} => (pc = "backup" \/ h.installCalled)
    /\ h.installCalled => h.detect \in {"Stale", "LocalMissing"}
    /\ h.detect = "Fresh" => (Returned /\ ~h.installCalled)

(* equal sizes, different bytes: classified Stale and the install begun *)
C9_Witness ==
    /\ h.pre.exists
    /\ Len(h.pre.content) = Len(remote)
    /\ h.pre.content # remote
    /\ h.detect = "Stale"
    /\ h.installCalled

(* the run started with the local content equal to the remote content *)
LocalEqualsRemote == h.pre.exists /\ h.pre.content = remote

(* target content, mode and times, backups and the .new file are as the    *)
(* run found them; no restart and no service-status check was made         *)
NoMutation ==
    /\ target = h.pre
    /\ backupDir = h.preBackups
    /\ newFile = h.preNew
    /\ h.restartCalls = 0
    /\ h.statusChecks = 0

TransportOk == h.fault = "none" /\ ~h.quitRaised

DetectFaults == {"connect", "remote_info", "temp_download"}

(* C11: if a transport step of the detection fails (connect, listing, file *)
(* not listed, comparison download) the run terminates Failed and nothing  *)
(* was mutated: no backup, target untouched, no restart, no verification   *)
C11_DetectionFailureIsInert ==
    h.fault \in DetectFaults =>
        /\ Returned
        /\ outcome = "Failed"
        /\ ~ret
        /\ Terminal => exitCode = 1
        /\ ~h.installCalled
        /\ target = h.pre
        /\ backupDir = h.preBackups
        /\ newFile = h.preNew
        /\ h.restartCalls = 0
        /\ h.statusChecks = 0

(* the listing failed with a local file present, and the run has exited *)
C11_Witness ==
    Terminal /\ h.fault = "remote_info" /\ h.pre.exists /\ h.pre.content # remote

(* the .new download failed, or it completed with zero bytes *)
StagingRefused ==
    /\ h.installCalled
    /\ pc \notin {"backup", "new_download", "check_size"}
    /\ h.downloadFailed = "new" \/ remote = <<>>

(* C12: if the download to .new fails or the staged file is empty, the run *)
(* terminates Failed, nothing is installed, the service is not restarted   *)
(* and the target has the content and the permissions it had before        *)
C12_RefusedInstallKeepsTarget ==
    StagingRefused =>
        /\ Returned
        /\ outcome = "Failed"
        /\ ~ret
        /\ Terminal => exitCode = 1
        /\ ~h.installed
        /\ h.restartCalls = 0
        /\ target = h.pre

(* an empty download was refused with a local file present *)
C12_Witness ==
    Terminal /\ h.fault = "empty" /\ h.pre.exists /\ h.pre.content # <<>>

(* C13: the rollback candidate recorded for the run is the newest backup   *)
(* made for the target's name, the one just taken in this run; after a     *)
(* successful backup step a candidate is always selected                   *)
C13_NewestBackupSelected ==
    (h.backupCopied /\ h.fault # "backup_select" /\ pc # "exited") =>
        /\ backup_file # NoBackup
        /\ backup_file = BackupName(now)

(* the verifier is inside its for loop *)
Verifying == pc \in {"verify_active", "verify_iface", "verify_logs"}

(* C14: the verifier returns Disconnected only after exactly               *)
(* max_connection_attempts attempts, one service-status check each; an     *)
(* inactive service, a timeout or error markers end one attempt and never  *)
(* the verification before the last attempt                                *)
C14_ExactlyMaxAttempts ==
    /\ Verifying =>
          /\ attempt \in 1..cfg.max_connection_attempts
          /\ h.statusChecks = IF pc = "verify_active" THEN attempt - 1 ELSE attempt
          /\ h.verifyRes = "none"
    /\ h.verifyRes = "disconnected" =>
          /\ h.statusChecks = cfg.max_connection_attempts
          /\ h.attempts = cfg.max_connection_attempts

(* three attempts configured, the service inactive at every check: three   *)
(* status checks, then Disconnected                                        *)
C14_Witness ==
    /\ cfg.max_connection_attempts = 3
    /\ h.verifyRes = "disconnected"
    /\ h.onlyInactive
    /\ h.statusChecks = 3

(* C15: a restart returns Failed only after both the primary and the       *)
(* secondary command were tried; a failure or timeout of the primary alone *)
(* never yields Failed                                                     *)
C15_FailedOnlyAfterBothPaths ==
    /\ (h.restartRes = "failed" /\ h.restartCalls = 1) => (h.primTried /\ h.secTried)
    /\ h.rbRestartRes = "failed" => (h.primTried /\ h.secTried)

(* the rollback is at its restart, after the restore *)
RollbackRestart == restartCtx = "rollback" /\ pc \in {"restart_primary", "restart_secondary"}

(* C16, as far as _rollback_configuration goes: the backup is restored     *)
(* over the target before the restart is invoked; the rollback returns     *)
(* UpdatedWithRollback exactly when restore and restart both succeeded and *)
(* Failed otherwise; a missing backup file fails the rollback with the     *)
(* installed target left in place                                          *)
C16_RollbackOrderAndOutcome ==
    /\ RollbackRestart =>
          /\ h.rbRestored
          /\ h.rbRestartRes = "none"
          /\ target.exists /\ target.mode = ModeOwnerOnly
    /\ h.rbRestartRes # "none" => h.rbRestored
    /\ (h.rbEntered /\ pc = "quit") =>
          /\ outcome \in {"UpdatedWithRollback", "Failed"}
          /\ (outcome = "UpdatedWithRollback") = (h.rbRestored /\ h.rbRestartRes = "ok")
          /\ ret = (outcome = "UpdatedWithRollback")
    /\ h.fault = "rollback_check" =>
          /\ Returned /\ outcome = "Failed"
          /\ ~h.rbRestored /\ h.restartCalls = 1
          /\ target.exists /\ target.content = remote

(* C16: the restore precedes the restart, and a run that entered the       *)
(* rollback terminates UpdatedWithRollback if and only if the restore and  *)
(* the restart after it both succeeded, Failed otherwise; a missing backup *)
(* file fails the rollback with the target left in place                   *)
C16_RollbackOutcomeAtExit ==
    /\ RollbackRestart => h.rbRestored
    /\ (Terminal /\ h.rbEntered) =>
          /\ outcome \in {"UpdatedWithRollback", "Failed"}
          /\ (outcome = "UpdatedWithRollback") = (h.rbRestored /\ h.rbRestartRes = "ok")
    /\ h.fault = "rollback_check" => (target.exists /\ outcome = "Failed")

(* the backup was restored, the restart after it failed, the run Failed *)
C16_Witness ==
    Terminal /\ h.rbRestored /\ h.rbRestartRes = "failed" /\ outcome = "Failed"

(* the rollback has been started or completed *)
RollbackAttempted ==
    \/ h.rbEntered
    \/ h.rbRestored
    \/ h.rbRestartRes # "none"
    \/ pc \in {"rollback_check", "rollback_remove", "rollback_copy", "rollback_chmod"}
    \/ restartCtx = "rollback"

(* C17: the backup is attempted before the .new download; a failed backup  *)
(* does not stop the fetch and the install, and no rollback is attempted   *)
(* in the rest of that run: a later restart or verification failure ends   *)
(* Failed with the new file in place                                       *)
C17_BackupBestEffort ==
    /\ pc = "backup" => (newFile = h.preNew /\ target = h.pre /\ ~h.installCalled)
    /\ (pc = "new_download" /\ cfg.create_backup /\ cfg.backup_path /\ h.pre.exists) =>
          (h.backupCopied \/ h.backupFailed) /\ newFile = h.preNew
    /\ h.backupFailed =>
          /\ backup_file = NoBackup
          /\ ~RollbackAttempted
          /\ (Returned /\ ~h.installed) => h.fault \in {"new_download", "empty"} \cup InstallFaults
          /\ (Returned /\ PostInstallFailure) =>
                (outcome = "Failed" /\ target.exists /\ target.content = remote)

(* the backup failed, the file was installed, the restart failed with      *)
(* auto-rollback on and a selectable file in the backup directory          *)
C17_Witness ==
    /\ Terminal /\ h.backupFailed /\ h.installed /\ h.restartRes = "failed"
    /\ cfg.auto_rollback
    /\ BackupCandidates(backupDir) # {}

(* C18: every successful backup adds a file under a name that did not      *)
(* exist, and no step of a run overwrites, changes or deletes a backup     *)
(* that exists, two backups in the same clock second included              *)
C18_BackupsAppendOnly ==
    [][~backup_removed_externally =>
          /\ \A n \in DOMAIN backupDir :
                n \in DOMAIN backupDir' /\ backupDir'[n] = backupDir[n]
          /\ (h'.backupCopied /\ ~h.backupCopied) =>
                BackupName(now) \notin DOMAIN backupDir]_vars

(* C19: with restart_openvpn off no service command is run and the restart *)
(* step reports success, after the install and after the rollback          *)
C19_DisabledRestartIsInert ==
    ~cfg.restart_openvpn =>
        /\ ~h.primTried
        /\ ~h.secTried
        /\ pc # "restart_secondary"
        /\ h.restartRes \in {"none", "ok"}
        /\ h.rbRestartRes \in {"none", "ok"}
        /\ h.restartCalls > 0 =>
              (pc = "restart_primary" \/ h.restartRes = "ok")
        /\ (h.rbRestored /\ pc # "restart_primary") => h.rbRestartRes = "ok"

(* restart off; both the restart after the install and the one after the   *)
(* rollback reported success                                               *)
C19_Witness ==
    ~cfg.restart_openvpn /\ h.restartRes = "ok" /\ h.rbRestartRes = "ok" /\ Terminal

(* C20: every configuration file that test_config.py reports valid, one    *)
(* without openvpn.remote_filename included, passes the updater's          *)
(* _validate_config                                                        *)
C20_TestedConfigAccepted ==
    (testOk = "valid" /\ updaterOk # "none") => updaterOk = "valid"

(* C21: every run that starts eventually terminates, also when an external *)
(* call (FTP or service manager) never answers                             *)
C21_EveryRunTerminates == (pc = "start") ~> Terminal

(* the restart after the install succeeded and the verification, if it is  *)
(* enabled, returned Connected                                             *)
InstallVerified ==
    /\ h.installed
    /\ h.restartRes = "ok"
    /\ cfg.check_connectivity => h.verifyRes = "connected"

(* C22: the verifier is invoked only after the post-install restart        *)
(* succeeded and only with check_connectivity on; a run whose restart      *)
(* succeeded and whose verification is off or returned Connected           *)
(* terminates Updated, with no rollback                                    *)
C22_VerifyGatedThenUpdated ==
    /\ (Verifying \/ h.statusChecks > 0) =>
          (h.restartRes = "ok" /\ cfg.check_connectivity /\ restartCtx = "install")
    /\ (Terminal /\ InstallVerified) =>
          (outcome = "Updated" /\ ~RollbackAttempted)

(* the last write of the target was completed: the install with its chmod, *)
(* and no restore begun after it, or the restore with its chmod            *)
WriteCompleted ==
    \/ h.restartCalls > 0 /\ pc \notin {"rollback_remove", "rollback_copy", "rollback_chmod"}
                          /\ h.fault \notin {"rollback_remove", "rollback_copy", "rollback_chmod"}
    \/ h.rbRestored

(* C24: whenever the restart is invoked after a write of the target, while *)
(* the verifier runs, and in every terminal state after a completed        *)
(* install or restore, the target exists with mode 0600                    *)
C24_OwnerOnlyAfterWrite ==
    /\ pc \in {"restart_primary", "restart_secondary"} =>
          (target.exists /\ target.mode = ModeOwnerOnly)
    /\ Verifying => (target.exists /\ target.mode = ModeOwnerOnly)
    /\ (Terminal /\ WriteCompleted) => (target.exists /\ target.mode = ModeOwnerOnly)

(* a file downloaded with the default mode was installed over a target     *)
(* with the default mode, and the run has exited Updated                   *)
C24_Witness ==
    /\ Terminal /\ outcome = "Updated"
    /\ h.pre.exists /\ h.pre.mode = ModeDefault
    /\ target.mode = ModeOwnerOnly

(* an exception left the step that raised it: the FTP connect, the search  *)
(* for the backup, a file operation of the install or of the restore, the  *)
(* closing of the FTP session                                              *)
Propagated ==
    \/ h.fault \in {"connect", "backup_select", "remove_old", "move_new", "chmod_new",
                    "rollback_remove", "rollback_copy", "rollback_chmod"}
    \/ h.quitRaised

(* an exception was raised and handled inside its step: _create_backup     *)
(* returned False, or the primary restart command raised                   *)
HandledInStep ==
    \/ h.backupFailed
    \/ h.restartCalls = 1 /\ h.restartRes = "failed" /\ h.primTried /\ ~h.secTried

(* C25: an exception raised at any step of a run makes the run terminate   *)
(* Failed with a non-zero exit code                                        *)
C25_AnyExceptionFails ==
    (Terminal /\ (Propagated \/ HandledInStep)) => (outcome = "Failed" /\ exitCode # 0)

(* C25 as amended: an exception that leaves its step is caught at the      *)
(* boundary of the install, of the rollback or of the run, and the run     *)
(* terminates Failed with exit code 1; every run that terminates has exit  *)
(* code 0 or 1                                                             *)
C25_PropagatedExceptionFails ==
    /\ Propagated =>
          /\ pc \in {"quit", "main_exit", "exited"}
          /\ outcome = "Failed"
          /\ ~ret
          /\ Terminal => exitCode = 1
    /\ Terminal => exitCode \in {0, 1}

(* the FTP session failed to close after a verified install: Failed, 1 *)
C25_Witness ==
    Terminal /\ h.quitRaised /\ InstallVerified /\ outcome = "Failed" /\ exitCode = 1

(* C26: a run that installed the new file, restarted the service and, if   *)
(* enabled, verified the connection reports Updated and exit code 0,       *)
(* whether or not closing the FTP session raises                           *)
C26_SuccessSurvivesQuit ==
    (Terminal /\ InstallVerified) => (outcome = "Updated" /\ exitCode = 0)

(* C23: in an attempt with the service active, a tunnel interface gives    *)
(* Connected at once with the logs unread; without one the attempt gives   *)
(* Connected exactly when the logs read carry no ERROR/FATAL marker, and   *)
(* with a marker the attempt fails: the next attempt follows, or           *)
(* Disconnected after the last                                             *)
C23_InterfaceThenLogs ==
    /\ h.iface = "tun" => (h.verifyRes = "connected" /\ h.logs = "none")
    /\ h.logs # "none" => h.iface = "absent"
    /\ h.logs = "clean" => h.verifyRes = "connected"
    /\ h.logs = "markers" =>
          /\ h.verifyRes # "connected"
          /\ \/ pc = "verify_active" /\ attempt = h.attempts + 1
             \/ h.attempts = cfg.max_connection_attempts /\ h.verifyRes = "disconnected"
    /\ h.verifyRes = "connected" =>
          \/ h.iface = "tun" /\ h.logs = "none"
          \/ h.iface = "absent" /\ h.logs = "clean"

(* no tunnel interface, logs without a marker: the run ended Connected *)
C23_Witness ==
    Terminal /\ h.verifyRes = "connected" /\ h.iface = "absent" /\ h.logs = "clean"

(* C27: in every configuration, one without openvpn_service_name included, *)
(* the service restarted is the service whose status and logs are checked  *)
C27_SameServiceRestartedAndChecked ==
    (restarted # "none" /\ checked # "none") => restarted = checked
====
